---- MODULE Spec2Model ----
(***************************************************************************)
(* ALX Polly: the server actions of app/lib/actions/poll-actions.ts and    *)
(* app/lib/actions/auth-actions.ts, modelled over the two store tables     *)
(* (polls, votes) and the identity provider they call.                     *)
(*                                                                         *)
(* A string is a sequence of one-character strings.  Null is JavaScript's  *)
(* null; a nullable row is a sequence of zero or one rows.                 *)
(***************************************************************************)
EXTENDS Integers, Sequences, FiniteSets, TLC

VARIABLES
    polls,      \* the polls table: a set of rows
    votes,      \* the votes table: a set of rows
    pollSeq,    \* number of poll rows ever inserted (ids and created_at come from it)
    voteSeq,    \* number of vote rows ever inserted
    calls,      \* submitVote calls in flight, one per request slot
    session,    \* the user the browser's session cookie resolves to, or Null
    last        \* the last request served and the payload it returned

vars == <<polls, votes, pollSeq, voteSeq, calls, session, last>>

Null == "<null>"

\* ------------------------------------------------------------------ bounds

MaxPolls == 2       \* poll rows ever inserted
MaxVotes == 3       \* vote rows ever inserted

\* --------------------------------------------------------------- constants

MAX_QUESTION_LENGTH == 255
MAX_OPTION_LENGTH == 100
MAX_OPTIONS_COUNT == 10

\* ----------------------------------------------------------------- strings

Rep(c, n) == [i \in 1..n |-> c]

Lower == {"a","b","c","d","e","f","g","h","i","j","k","l","m",
          "n","o","p","q","r","s","t","u","v","w","x","y","z"}
Upper == {"A","B","C","D","E","F","G","H","I","J","K","L","M",
          "N","O","P","Q","R","S","T","U","V","W","X","Y","Z"}
Digit == {"0","1","2","3","4","5","6","7","8","9"}
\* the grave accent, which a string literal here cannot hold
Backtick == "U+0060"
\* the character class of the fourth look-ahead of strongPasswordRegex
Special == {"!","@","#","$","%","^","&","*","(",")","_","+","=","{","}","[","]",
            ":",";","\"","'","<",">",",",".","?","/","~",Backtick}
\* what \s matches, among the characters used here
Whitespace == {" ", "\t", "\n", "\r"}
\* what . does not match
LineTerminator == {"\n", "\r"}

\* /^[^\s@]+@[^\s@]+\.[^\s@]+$/ : one "@", not first; no whitespace; a "."
\* after the "@" with at least one character on each side of it.
isValidEmail(email) ==
    LET n == Len(email) IN
    \E i \in 1..n : \E j \in 1..n :
        /\ email[i] = "@"
        /\ i > 1
        /\ email[j] = "."
        /\ j > i + 1
        /\ j < n
        /\ \A k \in (1..n) \ {i} : email[k] \notin (Whitespace \cup {"@"})

\* /^(?=.*[a-z])(?=.*[A-Z])(?=.*\d)(?=.*[special]).{8,}$/
isStrongPassword(password) ==
    LET n == Len(password) IN
    /\ n >= 8
    /\ \A k \in 1..n : password[k] \notin LineTerminator
    /\ \E k \in 1..n : password[k] \in Lower
    /\ \E k \in 1..n : password[k] \in Upper
    /\ \E k \in 1..n : password[k] \in Digit
    /\ \E k \in 1..n : password[k] \in Special

\* One token of a raw string that stands for a whole active element.
Script == "<script>alert(1)</script>"
Amp == <<"&", "a", "m", "p", ";">>

\* What the sanitizer writes for the token at position i of s: nothing for an
\* active element, the entity for a bare "&", the character itself otherwise
\* (an "&" that already starts the entity is kept as it is).
sanitizedAt(s, i) ==
    IF s[i] = Script THEN <<>>
    ELSE IF s[i] = "&" /\ ~(i + 4 <= Len(s) /\ SubSeq(s, i, i + 4) = Amp) THEN Amp
    ELSE <<s[i]>>

RECURSIVE sanitizedRange(_, _, _)
sanitizedRange(s, lo, hi) ==
    IF lo > hi THEN <<>>
    ELSE IF lo = hi THEN sanitizedAt(s, lo)
    ELSE LET mid == (lo + hi) \div 2
         IN sanitizedRange(s, lo, mid) \o sanitizedRange(s, mid + 1, hi)

\* DOMPurify.sanitize: parses the text as HTML, drops active elements and
\* serialises what is left, so a bare "&" comes back as the entity "&amp;"
\* and an entity comes back as itself.
sanitize(s) ==
    IF \A i \in 1..Len(s) : s[i] # "&"
    THEN SelectSeq(s, LAMBDA t : t # Script)
    ELSE sanitizedRange(s, 1, Len(s))

\* Array.prototype.filter(Boolean) on strings: drops the empty ones.
filterBoolean(list) == SelectSeq(list, LAMBDA x : x # <<>>)

mapSanitize(list) == [i \in 1..Len(list) |-> sanitize(list[i])]

\* ------------------------------------------------------------------- users

\* user_metadata.is_admin as the JSON value the identity provider holds:
\* register() stores false; the metadata map is loosely typed, so a value
\* need not be a boolean.
JTrue == "true"
JFalse == "false"
JString == "\"yes\""
JZero == "0"

UserMetadata ==
    [alice |-> JFalse, carol |-> JString, root |-> JTrue]

Users == DOMAIN UserMetadata
Callers == Users \cup {Null}

\* JavaScript truthiness of a metadata value: what !x tests.
Truthy(v) == v \notin {JFalse, JZero}
\* what x === true tests
StrictTrue(v) == v = JTrue

\* ------------------------------------------------------------------- store

UpstreamMessage == "upstream failure"
NoRowsCode == "PGRST116"
NoRowsMessage == "JSON object requested, multiple (or no) rows returned"

\* .order("created_at", { ascending: false })
RECURSIVE orderNewestFirst(_)
orderNewestFirst(rows) ==
    IF rows = {} THEN <<>>
    ELSE LET newest == CHOOSE r \in rows : \A o \in rows : o.created_at <= r.created_at
         IN <<newest>> \o orderNewestFirst(rows \ {newest})

\* .single(): the one row, or error PGRST116 for none or several.
single(rows) ==
    IF Cardinality(rows) = 1
    THEN [data |-> <<CHOOSE r \in rows : TRUE>>, code |-> Null, message |-> Null]
    ELSE [data |-> <<>>, code |-> NoRowsCode, message |-> NoRowsMessage]

\* -------------------------------------------------------------- createPoll

\* the validation with the limits tested by >= instead of >
validatePollFormOffByOne(form) ==
    LET question == sanitize(form.question)
        options == mapSanitize(filterBoolean(form.options))
        error ==
            IF question = <<>> \/ Len(options) < 2
            THEN "Please provide a question and at least two options."
            ELSE IF Len(question) >= MAX_QUESTION_LENGTH
            THEN "Question exceeds maximum length of 255 characters."
            ELSE IF Len(options) >= MAX_OPTIONS_COUNT
            THEN "A poll cannot have more than 10 options."
            ELSE IF \E i \in 1..Len(options) : Len(options[i]) >= MAX_OPTION_LENGTH
            THEN "One or more options exceed maximum length of 100 characters."
            ELSE Null
    IN [question |-> question, options |-> options, error |-> error]

\* Lines 16-39 (and, verbatim, 204-227): sanitize, then validate.
validatePollForm(form) ==
    LET question == sanitize(form.question)
        options == mapSanitize(filterBoolean(form.options))
        error ==
            IF question = <<>> \/ Len(options) < 2
            THEN "Please provide a question and at least two options."
            ELSE IF Len(question) > MAX_QUESTION_LENGTH
            THEN "Question exceeds maximum length of 255 characters."
            ELSE IF Len(options) > MAX_OPTIONS_COUNT
            THEN "A poll cannot have more than 10 options."
            ELSE IF \E i \in 1..Len(options) : Len(options[i]) > MAX_OPTION_LENGTH
            THEN "One or more options exceed maximum length of 100 characters."
            ELSE Null
    IN [question |-> question, options |-> options, error |-> error]

\* The row the store makes of an insert into polls: id and created_at are the
\* store's, and so is is_public, which no action of this layer sets.
newPollRow(user, question, options, pub) ==
    [id |-> pollSeq + 1, user_id |-> user, question |-> question,
     options |-> options, is_public |-> pub, created_at |-> pollSeq + 1]

\* What one request gets wrong on its way: nothing, the identity lookup
\* (auth.getUser() reports an error and yields no user), or the store call.
Faults == {"none", "auth", "store"}

\* getCurrentUser(), and the `user` of auth.getUser(): the user the request's
\* cookie resolves to, or null when there is none or the lookup fails.
getCurrentUser(user, fault) == IF fault = "auth" THEN Null ELSE user

Reply(error, data) == [error |-> error, data |-> data]

Request(op, user, id, index, form, fault) ==
    [op |-> op, user |-> user, id |-> id, index |-> index, form |-> form, fault |-> fault]

NoForm == [question |-> <<>>, options |-> <<>>]

\* createPoll(formData): the reply and the polls table it leaves.
createPoll(user, form, pub, fault) ==
    LET v == validatePollForm(form) IN
    IF v.error # Null THEN [error |-> v.error, polls |-> polls]
    ELSE IF fault = "auth" THEN [error |-> UpstreamMessage, polls |-> polls]
    ELSE IF user = Null
    THEN [error |-> "You must be logged in to create a poll.", polls |-> polls]
    ELSE IF fault = "store" THEN [error |-> UpstreamMessage, polls |-> polls]
    ELSE [error |-> Null,
          polls |-> polls \cup {newPollRow(user, v.question, v.options, pub)}]

CreatePoll(user, form, pub, fault) ==
    LET r == createPoll(user, form, pub, fault) IN
    /\ pollSeq < MaxPolls
    /\ polls' = r.polls
    /\ pollSeq' = IF r.error = Null THEN pollSeq + 1 ELSE pollSeq
    /\ last' = [req |-> Request("createPoll", user, 0, 0, form, fault),
                res |-> Reply(r.error, <<>>)]
    /\ UNCHANGED <<votes, voteSeq, calls, session>>

\* ------------------------------------------------------------------ readers

\* getUserPolls without the filter on the owner
getUserPollsUnscoped(user, fault) ==
    LET me == getCurrentUser(user, fault) IN
    IF me = Null THEN Reply("Not authenticated", <<>>)
    ELSE IF fault = "store" THEN Reply(UpstreamMessage, <<>>)
    ELSE Reply(Null, orderNewestFirst(polls))

getUserPolls(user, fault) ==
    LET me == getCurrentUser(user, fault) IN
    IF me = Null THEN Reply("Not authenticated", <<>>)
    ELSE IF fault = "store" THEN Reply(UpstreamMessage, <<>>)
    ELSE Reply(Null, orderNewestFirst({p \in polls : p.user_id = me}))

GetUserPolls(user, fault) ==
    /\ last' = [req |-> Request("getUserPolls", user, 0, 0, NoForm, fault),
                res |-> getUserPolls(user, fault)]
    /\ UNCHANGED <<polls, votes, pollSeq, voteSeq, calls, session>>

\* line 92: !(user.user_metadata).is_admin
adminByTruthiness(user) == Truthy(UserMetadata[user])
\* lines 113 and 184: (user.user_metadata).is_admin === true
adminByStrictTrue(user) == StrictTrue(UserMetadata[user])

getAdminPolls(user, fault) ==
    LET me == getCurrentUser(user, fault) IN
    IF me = Null \/ ~adminByTruthiness(me) THEN Reply("Unauthorized access.", <<>>)
    ELSE IF fault = "store" THEN Reply(UpstreamMessage, <<>>)
    ELSE Reply(Null, orderNewestFirst(polls))

GetAdminPolls(user, fault) ==
    /\ last' = [req |-> Request("getAdminPolls", user, 0, 0, NoForm, fault),
                res |-> getAdminPolls(user, fault)]
    /\ UNCHANGED <<polls, votes, pollSeq, voteSeq, calls, session>>

\* getPollById with no restriction on who reads a poll
pollVisibleToAnyone(p, me) == TRUE

\* The filter getPollById puts on the lookup, by the class of the caller.
pollVisibleTo(p, me) ==
    IF me # Null
    THEN IF ~adminByStrictTrue(me) THEN p.user_id = me \/ p.is_public ELSE TRUE
    ELSE p.is_public

getPollById(user, id, fault) ==
    LET me == getCurrentUser(user, fault)
        r == single({p \in polls : p.id = id /\ pollVisibleTo(p, me)})
    IN IF fault = "store" THEN Reply(UpstreamMessage, <<>>)
       ELSE IF r.code # Null THEN Reply(r.message, <<>>)
       ELSE Reply(Null, r.data)

GetPollById(user, id, fault) ==
    /\ last' = [req |-> Request("getPollById", user, id, 0, NoForm, fault),
                res |-> getPollById(user, id, fault)]
    /\ UNCHANGED <<polls, votes, pollSeq, voteSeq, calls, session>>

\* -------------------------------------------------------------- deletePoll

\* deletePoll without the filter on the owner
deleteMatchesAnyOwner(p, me, id) == p.id = id

\* The rows the delete's filter selects.
deleteMatches(p, me, id) ==
    /\ p.id = id
    /\ (adminByStrictTrue(me) \/ p.user_id = me)

deletePoll(user, id, fault) ==
    LET me == getCurrentUser(user, fault) IN
    IF me = Null
    THEN [error |-> "You must be logged in to delete a poll.", polls |-> polls]
    ELSE IF fault = "store" THEN [error |-> UpstreamMessage, polls |-> polls]
    ELSE [error |-> Null, polls |-> {p \in polls : ~deleteMatches(p, me, id)}]

DeletePoll(user, id, fault) ==
    LET r == deletePoll(user, id, fault) IN
    /\ polls' = r.polls
    /\ last' = [req |-> Request("deletePoll", user, id, 0, NoForm, fault),
                res |-> Reply(r.error, <<>>)]
    /\ UNCHANGED <<votes, pollSeq, voteSeq, calls, session>>

\* -------------------------------------------------------------- updatePoll

\* updatePoll with the admin override deletePoll has
updateMatchesOrAdmin(p, me, id) == p.id = id /\ (p.user_id = me \/ adminByStrictTrue(me))

\* The rows the update's filter selects.
updateMatches(p, me, id) == p.id = id /\ p.user_id = me

updatePoll(user, id, form, fault) ==
    LET v == validatePollForm(form) IN
    IF v.error # Null THEN [error |-> v.error, polls |-> polls]
    ELSE IF fault = "auth" THEN [error |-> UpstreamMessage, polls |-> polls]
    ELSE IF user = Null
    THEN [error |-> "You must be logged in to update a poll.", polls |-> polls]
    ELSE IF fault = "store" THEN [error |-> UpstreamMessage, polls |-> polls]
    ELSE [error |-> Null,
          polls |-> {IF updateMatches(p, user, id)
                     THEN [p EXCEPT !.question = v.question, !.options = v.options]
                     ELSE p : p \in polls}]

UpdatePoll(user, id, form, fault) ==
    LET r == updatePoll(user, id, form, fault) IN
    /\ polls' = r.polls
    /\ last' = [req |-> Request("updatePoll", user, id, 0, form, fault),
                res |-> Reply(r.error, <<>>)]
    /\ UNCHANGED <<votes, pollSeq, voteSeq, calls, session>>

\* -------------------------------------------------------------- submitVote

VoteFaults == {"none", "auth", "check", "insert"}
Slots == {"s1", "s2"}
Idle == [pc |-> "idle", user |-> Null, id |-> 0, index |-> 0]

\* submitVote without the existence check
checkExistingVoteSkipped(me, id, fault) == Null

\* Lines 145-160, for a caller with a session: the error the existence check
\* ends the call with, or Null to go on to the insert.
checkExistingVote(me, id, fault) ==
    LET r == single({v \in votes : v.poll_id = id /\ v.user_id = me})
        voteErrorCode == IF fault = "check" THEN "500" ELSE r.code
        voteErrorMessage == IF fault = "check" THEN UpstreamMessage ELSE r.message
        existingVote == IF fault = "check" THEN <<>> ELSE r.data
    IN IF voteErrorCode # Null /\ voteErrorCode # NoRowsCode THEN voteErrorMessage
       ELSE IF existingVote # <<>> THEN "You have already voted on this poll."
       ELSE Null

newVoteRow(me, id, index) ==
    [id |-> voteSeq + 1, poll_id |-> id, user_id |-> me, option_index |-> index,
     created_at |-> voteSeq + 1]

\* Lines 162-171.
insertVote(me, id, index, fault) ==
    IF fault = "insert" THEN [error |-> UpstreamMessage, votes |-> votes]
    ELSE [error |-> Null, votes |-> votes \cup {newVoteRow(me, id, index)}]

\* submitVote(pollId, optionIndex) run from its first line to its return with
\* no other request in between.
submitVote(user, id, index, fault) ==
    LET me == getCurrentUser(user, fault)
        refused == IF me # Null THEN checkExistingVote(me, id, fault) ELSE Null
    IN IF refused # Null THEN [error |-> refused, votes |-> votes]
       ELSE insertVote(me, id, index, fault)

SubmitVote(user, id, index, fault) ==
    LET r == submitVote(user, id, index, fault) IN
    /\ \A s \in Slots : calls[s].pc = "idle"
    /\ r.votes # votes => voteSeq < MaxVotes
    /\ votes' = r.votes
    /\ voteSeq' = IF r.votes # votes THEN voteSeq + 1 ELSE voteSeq
    /\ last' = [req |-> Request("submitVote", user, id, index, NoForm, fault),
                res |-> Reply(r.error, <<>>)]
    /\ UNCHANGED <<polls, pollSeq, calls, session>>

\* The same handler as the steps the runtime interleaves with other requests:
\* each await is a round trip to the provider or the store.
VoteBegin(s, user, id, index, fault) ==
    LET me == getCurrentUser(user, fault) IN
    /\ calls[s].pc = "idle"
    /\ calls' = [calls EXCEPT ![s] = [pc |-> IF me # Null THEN "check" ELSE "insert",
                                      user |-> me, id |-> id, index |-> index]]
    /\ UNCHANGED <<polls, votes, pollSeq, voteSeq, session, last>>

VoteCheck(s, fault) ==
    LET c == calls[s]
        refused == checkExistingVote(c.user, c.id, fault)
    IN /\ c.pc = "check"
       /\ IF refused # Null
          THEN /\ calls' = [calls EXCEPT ![s] = Idle]
               /\ last' = [req |-> Request("submitVote", c.user, c.id, c.index, NoForm, fault),
                           res |-> Reply(refused, <<>>)]
          ELSE /\ calls' = [calls EXCEPT ![s].pc = "insert"]
               /\ UNCHANGED last
       /\ UNCHANGED <<polls, votes, pollSeq, voteSeq, session>>

VoteInsert(s, fault) ==
    LET c == calls[s]
        r == insertVote(c.user, c.id, c.index, fault)
    IN /\ c.pc = "insert"
       /\ voteSeq < MaxVotes
       /\ votes' = r.votes
       /\ voteSeq' = IF r.votes # votes THEN voteSeq + 1 ELSE voteSeq
       /\ calls' = [calls EXCEPT ![s] = Idle]
       /\ last' = [req |-> Request("submitVote", c.user, c.id, c.index, NoForm, fault),
                   res |-> Reply(r.error, <<>>)]
       /\ UNCHANGED <<polls, pollSeq, session>>

\* ------------------------------------------------------------------- login

AliceEmail == <<"a", "@", "b", ".", "c", "o">>
AlicePassword == <<"P", "a", "s", "s", "w", "0", "r", "d", "!">>

\* the accounts the identity provider holds
Accounts == {[email |-> AliceEmail, password |-> AlicePassword, user |-> "alice"]}

\* auth.signInWithPassword: the provider's verdict on a sign-in.
signInWithPassword(email, password, fault) ==
    LET known == {a \in Accounts : a.email = email} IN
    IF fault = "auth" THEN [error |-> "unexpected_failure", user |-> Null]
    ELSE IF known = {} THEN [error |-> "user_not_found", user |-> Null]
    ELSE IF \A a \in known : a.password # password
    THEN [error |-> "wrong_password", user |-> Null]
    ELSE [error |-> Null, user |-> (CHOOSE a \in known : a.password = password).user]

\* login passing the provider's verdict on to the caller
loginLeaking(email, password, fault) ==
    IF ~isValidEmail(email) \/ ~isStrongPassword(password)
    THEN [payload |-> [error |-> "Invalid credentials."], provider |-> "not contacted",
          session |-> session]
    ELSE LET r == signInWithPassword(email, password, fault) IN
         IF r.error # Null
         THEN [payload |-> [error |-> r.error], provider |-> r.error, session |-> session]
         ELSE [payload |-> [error |-> Null], provider |-> "signed in", session |-> r.user]

\* login(data): the payload, whether the provider was asked and what it said,
\* and the session the call leaves.
login(email, password, fault) ==
    IF ~isValidEmail(email) \/ ~isStrongPassword(password)
    THEN [payload |-> [error |-> "Invalid credentials."], provider |-> "not contacted",
          session |-> session]
    ELSE LET r == signInWithPassword(email, password, fault) IN
         IF r.error # Null
         THEN [payload |-> [error |-> "Invalid credentials."], provider |-> r.error,
               session |-> session]
         ELSE [payload |-> [error |-> Null], provider |-> "signed in", session |-> r.user]

Login(email, password, fault) ==
    LET r == login(email, password, fault) IN
    /\ session' = r.session
    /\ last' = [req |-> [op |-> "login", email |-> email, password |-> password,
                         fault |-> fault],
                res |-> r.payload, provider |-> r.provider]
    /\ UNCHANGED <<polls, votes, pollSeq, voteSeq, calls>>

logout(fault) ==
    IF fault = "auth" THEN [payload |-> [error |-> UpstreamMessage], session |-> session]
    ELSE [payload |-> [error |-> Null], session |-> Null]

Logout(fault) ==
    LET r == logout(fault) IN
    /\ session' = r.session
    /\ last' = [req |-> [op |-> "logout", fault |-> fault], res |-> r.payload,
                provider |-> "sign out"]
    /\ UNCHANGED <<polls, votes, pollSeq, voteSeq, calls>>

\* ----------------------------------------------------------------- inputs

\* forms a browser submits in everyday use
FormPick == [question |-> <<Script, "P", "i", "c", "k">>,
             options |-> <<<<"r", "e", "d">>, <<>>, <<"b", "l", "u", "e">>, <<"t", "a", "n">>>>]
FormWhy == [question |-> <<"W", "h", "y">>, options |-> <<<<"y", "e", "s">>, <<"n", "o">>>>]
FormEmpty == [question |-> <<>>, options |-> <<<<"y", "e", "s">>, <<"n", "o">>>>]

PollIds == 1..MaxPolls
OptionIndexes == {0, 2}

Init ==
    /\ polls = {}
    /\ votes = {}
    /\ pollSeq = 0
    /\ voteSeq = 0
    /\ calls = [s \in Slots |-> Idle]
    /\ session = Null
    /\ last = [req |-> [op |-> "none"], res |-> Reply(Null, <<>>)]

\* What the store or the provider gets wrong in the scenarios below.
StoreFaults == {"none", "store"}
FormsCreated == {FormPick, FormEmpty}
FormsUpdated == {FormWhy, FormEmpty}

\* Writers of the polls table, one request at a time, on private polls.
Next ==
    \/ \E user \in Callers, form \in FormsCreated, fault \in StoreFaults :
          CreatePoll(user, form, FALSE, fault)
    \/ \E user \in Callers, id \in PollIds, form \in FormsUpdated, fault \in StoreFaults :
          UpdatePoll(user, id, form, fault)
    \/ \E user \in Callers, id \in PollIds, fault \in StoreFaults :
          DeletePoll(user, id, fault)

Spec == Init /\ [][Next]_vars

\* Readers of the polls table, over the tables createPoll builds.
NextRead ==
    \/ \E user \in Users, pub \in BOOLEAN : CreatePoll(user, FormWhy, pub, "none")
    \/ \E user \in Callers, id \in PollIds, fault \in Faults : GetPollById(user, id, fault)
    \/ \E user \in Callers, fault \in Faults : GetUserPolls(user, fault)
    \/ \E user \in Callers, fault \in Faults : GetAdminPolls(user, fault)

SpecRead == Init /\ [][NextRead]_vars

\* submitVote calls that run one at a time.
Voters == {"alice", Null}
VotePollIds == {1, 2}
NextVote ==
    \E user \in Voters, id \in VotePollIds, index \in OptionIndexes, fault \in VoteFaults :
        SubmitVote(user, id, index, fault)

SpecVote == Init /\ [][NextVote]_vars

\* submitVote calls whose round trips interleave.
NextRace ==
    \/ \E s \in Slots, user \in Voters, index \in OptionIndexes, fault \in {"none", "auth"} :
          VoteBegin(s, user, 1, index, fault)
    \/ \E s \in Slots, fault \in {"none", "check"} : VoteCheck(s, fault)
    \/ \E s \in Slots, fault \in {"none", "insert"} : VoteInsert(s, fault)

SpecRace == Init /\ [][NextRace]_vars

\* Polls and votes together: one owner writes polls, anyone votes.
NextAll ==
    \/ \E form \in {FormPick, FormWhy} : CreatePoll("alice", form, TRUE, "none")
    \/ \E id \in PollIds, form \in {FormWhy} : UpdatePoll("alice", id, form, "none")
    \/ \E id \in PollIds : DeletePoll("alice", id, "none")
    \/ \E user \in Voters, id \in PollIds, index \in OptionIndexes :
          SubmitVote(user, id, index, "none")

SpecAll == Init /\ [][NextAll]_vars

\* Forms at the limits of the validation.
Yes == <<"y", "e", "s">>
No == <<"n", "o">>
QuestionsAtLimits ==
    { <<>>,                                         \* empty
      <<"W", "h", "y">>,
      <<Script>>,                                   \* nothing left once sanitized
      <<Script, "P", "i", "c", "k">>,
      Rep("q", MAX_QUESTION_LENGTH),
      Rep("q", MAX_QUESTION_LENGTH + 1),
      <<Script>> \o Rep("q", MAX_QUESTION_LENGTH),  \* 255 once sanitized
      Rep("q", MAX_QUESTION_LENGTH - 5) \o <<"&">>, \* 255 once sanitized
      Rep("q", MAX_QUESTION_LENGTH - 4) \o <<"&">>  \* 256 once sanitized
    }
OptionsAtLimits ==
    { <<>>,
      <<Yes>>,
      <<Yes, <<>>>>,                                \* one left by filter(Boolean)
      <<Yes, No>>,
      <<Yes, <<>>, No>>,
      <<Yes, <<Script>>>>,                          \* the second is empty once sanitized
      [i \in 1..MAX_OPTIONS_COUNT |-> <<"o", "p", "t">>],
      [i \in 1..(MAX_OPTIONS_COUNT + 1) |-> <<"o", "p", "t">>],
      <<Yes, Rep("o", MAX_OPTION_LENGTH)>>,
      <<Yes, Rep("o", MAX_OPTION_LENGTH + 1)>>,
      <<Yes, <<Script>> \o Rep("o", MAX_OPTION_LENGTH)>>,      \* 100 once sanitized
      <<Yes, Rep("o", MAX_OPTION_LENGTH - 4) \o <<"&">>>>      \* 101 once sanitized
    }
FormsAtLimits ==
    {[question |-> q, options |-> <<Yes, No>>] : q \in QuestionsAtLimits}
    \cup {[question |-> <<"W", "h", "y">>, options |-> o] : o \in OptionsAtLimits}
    \cup {[question |-> Rep("q", MAX_QUESTION_LENGTH + 1),
           options |-> [i \in 1..(MAX_OPTIONS_COUNT + 1) |-> <<"o", "p", "t">>]],
          [question |-> <<>>, options |-> <<Yes>>],
          [question |-> Rep("q", MAX_QUESTION_LENGTH),
           options |-> [i \in 1..MAX_OPTIONS_COUNT |-> Rep("o", MAX_OPTION_LENGTH)]]}

\* createPoll on an empty table and updatePoll of the poll it made, with
\* forms at the limits.
NextForm ==
    \/ \E user \in {"alice", Null}, form \in FormsAtLimits, fault \in Faults :
          polls = {} /\ CreatePoll(user, form, FALSE, fault)
    \/ \E user \in {"alice", "root"}, form \in FormsAtLimits :
          UpdatePoll(user, 1, form, "none")

SpecForm == Init /\ [][NextForm]_vars

\* Sign-in attempts.
Emails ==
    { AliceEmail,
      <<"x", "@", "y", ".", "i", "o">>,             \* well formed, no account
      <<"a", "@", ".", ".", "c">>,                  \* well formed: "." may stand in a part
      <<"a", "b", ".", "c", "o">>,                  \* no "@"
      <<"a", "@", "b", "c", "o">>,                  \* no "."
      <<"a", " ", "@", "b", ".", "c", "o">>,        \* whitespace
      <<"a", "@", "@", "b", ".", "c", "o">>,        \* two "@"
      <<"@", "b", ".", "c", "o">>,                  \* nothing before the "@"
      <<"a", "@", ".", "c", "o">>,                  \* nothing between "@" and "."
      <<"a", "@", "b", ".">>,                       \* nothing after the "."
      <<"a", ".", "b", "@", "c">> }                 \* the only "." is before the "@"
Passwords ==
    { AlicePassword,
      <<"W", "r", "0", "n", "g", "!", "p", "w">>,   \* strong, not Alice's
      <<"P", "a", "s", "s", " ", "w", "0", "r", "d", "?">>,
      <<"P", "a", "s", "0", "r", "d", "!">>,        \* seven characters
      <<"p", "a", "s", "s", "w", "0", "r", "d", "!">>,
      <<"P", "A", "S", "S", "W", "0", "R", "D", "!">>,
      <<"P", "a", "s", "s", "w", "o", "r", "d", "!">>,
      <<"P", "a", "s", "s", "w", "0", "r", "d", "-">>,   \* "-" is no special character
      <<"P", "a", "s", "s", "w", "0", "r", "d", "!", "\n">> }

NextLogin ==
    \/ \E email \in Emails, password \in Passwords, fault \in {"none", "auth"} :
          Login(email, password, fault)
    \/ \E fault \in {"none", "auth"} : Logout(fault)

SpecLogin == Init /\ [][NextLogin]_vars

\* ------------------------------------------------------------------ claims

\* The caller as the handler sees it.
Seen(req) == IF req.fault = "auth" THEN Null ELSE req.user
IsAdmin(user) == user # Null /\ UserMetadata[user] = JTrue

\* C1: getPollById gives a private poll to its owner and to a caller whose
\* is_admin is true, and to nobody else (poll = null for an anonymous caller
\* and for an authenticated non-owner non-admin); it gives a public poll to
\* every caller.  Stated for lookups the store answers.
C1_PrivatePollAccess ==
    (last.req.op = "getPollById" /\ last.req.fault # "store") =>
        \A p \in polls :
            p.id = last.req.id =>
                LET c == Seen(last.req)
                    allowed == c # Null /\ (p.user_id = c \/ IsAdmin(c))
                IN IF p.is_public
                   THEN last.res.data = <<p>>
                   ELSE /\ (last.res.data = <<p>>) <=> allowed
                        /\ ~allowed => last.res.data = <<>>

C1_Witness ==
    /\ last.req.op = "getPollById"
    /\ last.req.fault = "none"
    /\ last.req.user = "carol"
    /\ last.res.data = <<>>
    /\ \E p \in polls : p.id = last.req.id /\ ~p.is_public /\ p.user_id = "alice"

\* rows is exactly the set `want`, newest first
ListsNewestFirst(rows, want) ==
    /\ Len(rows) = Cardinality(want)
    /\ {rows[i] : i \in 1..Len(rows)} = want
    /\ \A i \in 1..Len(rows) : \A j \in 1..Len(rows) :
           i < j => rows[i].created_at > rows[j].created_at

\* C8 (as claimed): getAdminPolls returns all polls, newest first, only to a
\* caller whose is_admin is exactly the boolean true, the same callers
\* getPollById and deletePoll treat as admin; every other caller gets
\* {polls: [], error: "Unauthorized access."}.
C8_AdminOnlyStrictTrue ==
    (last.req.op = "getAdminPolls" /\ last.req.fault # "store") =>
        IF IsAdmin(Seen(last.req))
        THEN last.res.error = Null /\ ListsNewestFirst(last.res.data, polls)
        ELSE last.res = Reply("Unauthorized access.", <<>>)

\* C9 (as claimed): getUserPolls with a session returns exactly the caller's
\* polls, newest first; without a session an empty list and error = null.
C9_AnonymousGetsNoError ==
    (last.req.op = "getUserPolls" /\ last.req.fault # "store") =>
        LET c == Seen(last.req) IN
        IF c # Null
        THEN /\ last.res.error = Null
             /\ ListsNewestFirst(last.res.data, {p \in polls : p.user_id = c})
        ELSE last.res = Reply(Null, <<>>)

\* C9 (amended): getUserPolls with a session returns exactly the caller's
\* polls, newest first, and never another user's poll; without a session it
\* returns an empty list with error = "Not authenticated".
C9_UserPollsScoped ==
    (last.req.op = "getUserPolls" /\ last.req.fault # "store") =>
        LET c == Seen(last.req) IN
        IF c # Null
        THEN /\ last.res.error = Null
             /\ ListsNewestFirst(last.res.data, {p \in polls : p.user_id = c})
             /\ \A i \in 1..Len(last.res.data) : last.res.data[i].user_id = c
        ELSE last.res = Reply("Not authenticated", <<>>)

C9_Witness ==
    /\ last.req.op = "getUserPolls"
    /\ last.req.fault = "none"
    /\ last.req.user = "alice"
    /\ Len(last.res.data) = 1
    /\ \E p \in polls : p.user_id # "alice"

MustLogInToDelete == "You must be logged in to delete a poll."
MustLogInToUpdate == "You must be logged in to update a poll."

\* C4: deletePoll removes a poll row only when the caller is authenticated and
\* is the poll's owner or has is_admin = true.  An authenticated non-admin
\* caller aiming at another user's poll leaves the polls table unchanged and
\* gets error = null (when the store reports no failure); a caller with no
\* session leaves it unchanged and gets the must-be-logged-in error.
C4_DeleteOnlyByOwnerOrAdmin ==
    [][ last'.req.op = "deletePoll" =>
          LET c == Seen(last'.req)
              id == last'.req.id
          IN /\ polls' \subseteq polls
             /\ \A p \in polls \ polls' :
                    p.id = id /\ c # Null /\ (p.user_id = c \/ IsAdmin(c))
             /\ (/\ c # Null
                 /\ ~IsAdmin(c)
                 /\ \E p \in polls : p.id = id /\ p.user_id # c)
                => /\ polls' = polls
                   /\ last'.req.fault = "none" => last'.res.error = Null
             /\ c = Null => polls' = polls /\ last'.res.error = MustLogInToDelete
      ]_vars

C4_Witness ==
    /\ last.req.op = "deletePoll"
    /\ last.req.fault = "none"
    /\ last.req.user = "carol"
    /\ last.res.error = Null
    /\ \E p \in polls : p.id = last.req.id /\ p.user_id = "alice"

\* Every row of `before` is in `after` with the same id, owner, visibility
\* and creation time, and `after` has no other row.
SameRowsButText(before, after) ==
    /\ \A p \in before : \E q \in after :
           /\ q.id = p.id
           /\ q.user_id = p.user_id
           /\ q.is_public = p.is_public
           /\ q.created_at = p.created_at
    /\ \A q \in after : \E p \in before : p.id = q.id

\* the form passed validation
ValidationErrors ==
    { "Please provide a question and at least two options.",
      "Question exceeds maximum length of 255 characters.",
      "A poll cannot have more than 10 options.",
      "One or more options exceed maximum length of 100 characters." }

\* C5 (as claimed): updatePoll changes question and options only for the
\* poll's owner; for every caller who is not the owner, an admin included, a
\* call with valid input leaves the row unchanged and returns error = null;
\* no other field is ever changed.
C5_EveryNonOwnerGetsNoError ==
    [][ last'.req.op = "updatePoll" =>
          LET c == last'.req.user
              id == last'.req.id
          IN /\ SameRowsButText(polls, polls')
             /\ \A p \in polls \ polls' : p.id = id /\ p.user_id = c
             /\ (/\ last'.res.error \notin ValidationErrors
                 /\ last'.req.fault = "none"
                 /\ \E p \in polls : p.id = id /\ p.user_id # c)
                => polls' = polls /\ last'.res.error = Null
      ]_vars

\* C5 (amended): the same, with error = null for every authenticated caller
\* who is not the owner, and the must-be-logged-in error for a caller with no
\* session.
C5_UpdateOnlyByOwner ==
    [][ last'.req.op = "updatePoll" =>
          LET c == last'.req.user
              id == last'.req.id
          IN /\ SameRowsButText(polls, polls')
             /\ \A p \in polls \ polls' : p.id = id /\ p.user_id = c /\ c # Null
             /\ (/\ last'.res.error \notin ValidationErrors
                 /\ last'.req.fault = "none"
                 /\ \E p \in polls : p.id = id /\ p.user_id # c)
                => /\ polls' = polls
                   /\ last'.res.error = IF c = Null THEN MustLogInToUpdate ELSE Null
      ]_vars

C5_Witness ==
    /\ last.req.op = "updatePoll"
    /\ last.req.fault = "none"
    /\ last.req.user = "root"
    /\ last.res.error = Null
    /\ \E p \in polls :
           /\ p.id = last.req.id
           /\ p.user_id = "alice"
           /\ p.question # sanitize(last.req.form.question)

AlreadyVoted == "You have already voted on this poll."

\* C2 (as claimed): in every reachable state of the votes table, also under
\* interleaved submitVote calls, there is at most one vote row for each pair
\* (poll id, user id) with a non-null user id.
C2_OneVotePerUserAndPoll ==
    \A v \in votes : \A w \in votes :
        (v.poll_id = w.poll_id /\ v.user_id = w.user_id /\ v.user_id # Null) => v = w

\* C3: with submitVote calls run one at a time, a caller with a session who
\* already has a vote row for the poll gets the duplicate-vote error and no
\* row is inserted, whatever the option index; a caller with no session is
\* never refused as a duplicate and, when the store takes the insert, gets
\* error = null and exactly one new row with user_id = null.
C3_DuplicateRefusedAnonymousNot ==
    [][ last'.req.op = "submitVote" =>
          LET c == Seen(last'.req)
              id == last'.req.id
          IN /\ (/\ c # Null
                 /\ last'.req.fault # "check"
                 /\ \E v \in votes : v.poll_id = id /\ v.user_id = c)
                => last'.res.error = AlreadyVoted /\ votes' = votes
             /\ c = Null => last'.res.error # AlreadyVoted
             /\ (c = Null /\ last'.req.fault # "insert")
                => /\ last'.res.error = Null
                   /\ \E v \in votes' \ votes :
                          /\ votes' = votes \cup {v}
                          /\ v.user_id = Null
                          /\ v.poll_id = id
                          /\ v.option_index = last'.req.index
      ]_vars

C3_Witness ==
    /\ last.req.op = "submitVote"
    /\ last.req.user = "alice"
    /\ last.req.fault = "none"
    /\ last.res.error = AlreadyVoted
    /\ \E v \in votes :
           /\ v.poll_id = last.req.id
           /\ v.user_id = "alice"
           /\ v.option_index # last.req.index
    /\ \E v \in votes : \E w \in votes :
           v # w /\ v.user_id = Null /\ w.user_id = Null /\ v.poll_id = w.poll_id

\* C10 (as claimed): after any sequence of createPoll, updatePoll, deletePoll
\* and submitVote calls, every vote row's option index is a valid index into
\* the current options of the poll it refers to.
C10_VoteIndexWithinOptions ==
    \A v \in votes : \A p \in polls :
        p.id = v.poll_id => (0 <= v.option_index /\ v.option_index < Len(p.options))

\* The acceptance rule of the claim: the sanitized question is non-empty and
\* at most 255 characters, the options submitted number between 2 and 10,
\* and every sanitized option is at most 100 characters.
SubmittedOptions(form) == filterBoolean(form.options)
Accepted(form) ==
    /\ Len(sanitize(form.question)) \in 1..255
    /\ Len(SubmittedOptions(form)) \in 2..10
    /\ \A i \in 1..Len(SubmittedOptions(form)) : Len(sanitize(SubmittedOptions(form)[i])) <= 100

HoldsSanitized(row, form) ==
    /\ row.question = sanitize(form.question)
    /\ Len(row.options) = Len(SubmittedOptions(form))
    /\ \A i \in 1..Len(row.options) : row.options[i] = sanitize(SubmittedOptions(form)[i])

\* C6: for an authenticated caller and a store that accepts the write,
\* createPoll succeeds (error = null, exactly one row inserted, owned by the
\* caller, holding the sanitized question and options) if and only if the
\* form meets the acceptance rule; otherwise it returns an error and inserts
\* nothing.  updatePoll applies the same rule.
C6_AcceptanceRule ==
    [][ (last'.req.op \in {"createPoll", "updatePoll"}
         /\ last'.req.user # Null /\ last'.req.fault = "none") =>
          LET form == last'.req.form
              c == last'.req.user
          IN IF last'.req.op = "createPoll"
             THEN IF Accepted(form)
                  THEN /\ last'.res.error = Null
                       /\ \E row \in polls' \ polls :
                              /\ polls' = polls \cup {row}
                              /\ row.user_id = c
                              /\ HoldsSanitized(row, form)
                  ELSE last'.res.error # Null /\ polls' = polls
             ELSE /\ (last'.res.error = Null) <=> Accepted(form)
                  /\ ~Accepted(form) => polls' = polls
                  /\ Accepted(form) =>
                        \A row \in polls' :
                            (row.id = last'.req.id /\ row.user_id = c)
                                => HoldsSanitized(row, form)
      ]_vars

C6_Witness ==
    /\ last.req.op = "createPoll"
    /\ last.req.user = "alice"
    /\ last.res.error = Null
    /\ Len(last.req.form.question) = 255
    /\ Len(last.req.form.options) = 10
    /\ \E row \in polls : Len(row.question) = 255 /\ Len(row.options) = 10

\* addresses and passwords among the inputs that the validation is to refuse
MalformedEmails ==
    { <<"a", "b", ".", "c", "o">>,
      <<"a", "@", "b", "c", "o">>,
      <<"a", " ", "@", "b", ".", "c", "o">>,
      <<"a", "@", "@", "b", ".", "c", "o">>,
      <<"@", "b", ".", "c", "o">>,
      <<"a", "@", ".", "c", "o">>,
      <<"a", "@", "b", ".">>,
      <<"a", ".", "b", "@", "c">> }
WeakPasswords ==
    { <<"P", "a", "s", "0", "r", "d", "!">>,
      <<"p", "a", "s", "s", "w", "0", "r", "d", "!">>,
      <<"P", "A", "S", "S", "W", "0", "R", "D", "!">>,
      <<"P", "a", "s", "s", "w", "o", "r", "d", "!">>,
      <<"P", "a", "s", "s", "w", "0", "r", "d", "-">>,
      <<"P", "a", "s", "s", "w", "0", "r", "d", "!", "\n">> }
InvalidCredentials == [error |-> "Invalid credentials."]

\* C7: every unsuccessful login returns the payload {error: "Invalid
\* credentials."}, whether the email fails format validation, the password
\* fails strength validation or the identity provider reports a failure of
\* any kind; when the email or the password fails validation the provider is
\* not contacted.
C7_UniformLoginFailure ==
    last.req.op = "login" =>
        /\ last.res.error # Null => last.res = InvalidCredentials
        /\ (last.req.email \in MalformedEmails \/ last.req.password \in WeakPasswords)
            => last.res = InvalidCredentials /\ last.provider = "not contacted"
        /\ last.provider \in {"wrong_password", "user_not_found", "unexpected_failure"}
            => last.res = InvalidCredentials

C7_Witness ==
    /\ last.req.op = "login"
    /\ last.req.email = AliceEmail
    /\ last.provider = "wrong_password"
    /\ last.res = InvalidCredentials

\* the options of a form that are non-empty once sanitized
NonEmptySanitizedOptions(form) ==
    SelectSeq([i \in 1..Len(form.options) |-> sanitize(form.options[i])],
              LAMBDA o : o # <<>>)

\* C11 (as claimed): createPoll and updatePoll count options after
\* sanitization: a form with fewer than 2 options that are non-empty once
\* sanitized is refused with the "question and at least two options" error,
\* so no poll row holds an empty option text or fewer than 2 non-empty
\* options.
C11_OptionsCountedAfterSanitization ==
    /\ (last.req.op \in {"createPoll", "updatePoll"}
        /\ Len(NonEmptySanitizedOptions(last.req.form)) < 2)
       => last.res.error = "Please provide a question and at least two options."
    /\ \A p \in polls :
           /\ \A i \in 1..Len(p.options) : p.options[i] # <<>>
           /\ Len(SelectSeq(p.options, LAMBDA o : o # <<>>)) >= 2

====
